---- MODULE Spec2Model ----
(***************************************************************************)
(* Basket pricing and order construction of the Kalshi basket service      *)
(* (backend/app/basket_service.py, called from backend/app/main.py).       *)
(*                                                                         *)
(* Numbers.  Dollar amounts are exact multiples of 1/Scale dollar and      *)
(* weights are exact fractions <<numerator, denominator>>; the binary      *)
(* representation error of Python floats is not modelled.  The money grid  *)
(* is five times finer than the 4-decimal grid round(x, 4) rounds to, so   *)
(* that rounding is a real conversion (and never meets a tie).             *)
(***************************************************************************)
EXTENDS Integers, Sequences, FiniteSets, TLC

\* ------------------------------------------------------------------ bounds
\* Legs of an ordinary theme (the wide themes below are sized by the
\* batch limit of the code, not by this bound).
MaxLegs == 2

\* ------------------------------------------------------- program constants
BATCH_ORDER_LIMIT == 20
TRADABLE_STATUSES == {"active", "open"}
DIRECTION_OPTIONS == {"BUY_YES", "BUY_NO", "SELL_YES", "SELL_NO"}

\* ------------------------------------------------------------ number model
\* Units per dollar: one unit is $0.00002.
Scale == 5 * 10000
\* round(x, 4) rounds to multiples of $0.0001, i.e. of Tick units.
Tick == Scale \div 10000
\* Weights of a theme are given in tenths.
WDen == 2 * 5

None == [kind |-> "none", val |-> 0]

Abs(x) == IF x < 0 THEN -x ELSE x

RECURSIVE Gcd(_, _)
Gcd(a, b) == IF b = 0 THEN a ELSE Gcd(b, a % b)

\* A fraction in lowest terms with a positive denominator.
Rat(n, d) ==
  LET g == Gcd(Abs(n), Abs(d))
      s == IF d < 0 THEN -1 ELSE 1
  IN  IF g = 0 THEN <<0, 1>> ELSE <<s * (n \div g), s * (d \div g)>>

RatAdd(a, b) == Rat(a[1] * b[2] + b[1] * a[2], a[2] * b[2])
RatDiv(a, b) == Rat(a[1] * b[2], a[2] * b[1])
RatLe(a, b) == a[1] * b[2] <= b[1] * a[2]
RatMin(a, b) == IF RatLe(a, b) THEN a ELSE b
RatMax(a, b) == IF RatLe(a, b) THEN b ELSE a

\* Python's round(x, 4) on a non-negative amount: the nearest multiple of
\* Tick (Tick is odd, so no amount lies half way).
Round4(x) == ((x + (Tick \div 2)) \div Tick) * Tick

\* ------------------------------------------------------------------ inputs
Markets == {"M1", "M2"}
MarketAt(i) == IF i % 2 = 1 THEN "M1" ELSE "M2"

\* Raw price fields of a market object as the exchange's JSON gives them:
\* absent/null, a JSON number, a numeric string ("0.5000"), or a string
\* that is no number.
Num(v) == [kind |-> "num", val |-> v]
Str(v) == [kind |-> "str", val |-> v]
Bad == [kind |-> "bad", val |-> 0]

\* _parse_dollars: None for None and for what float() rejects.
parse_dollars(v) ==
  IF v.kind = "none" THEN None
  ELSE IF v.kind = "num" THEN Num(v.val)
  ELSE IF v.kind = "str" THEN Num(v.val)
  ELSE None

\* str.lower() on the status strings of the model.
Lower(s) ==
  CASE s = "Open" -> "open"
    [] s = "ACTIVE" -> "active"
    [] OTHER -> s

\* Mutant of is_tradable: any status that is not empty counts as tradable.
is_tradable_any(market) == market.status # ""

\* Mutant of is_tradable: the status is compared as it is spelled.
is_tradable_case_sensitive(market) == market.status \in TRADABLE_STATUSES

\* _is_tradable: (market.get("status") or "").lower() in TRADABLE_STATUSES;
\* a missing status is the string "".
is_tradable(market) == Lower(market.status) \in TRADABLE_STATUSES

\* Mutant of pick_price_dollars: a sell is priced at the ask, like a buy.
pick_price_dollars_ask_only(market, direction) ==
  CASE direction \in {"BUY_YES", "SELL_YES"} -> parse_dollars(market.yes_ask_dollars)
    [] direction \in {"BUY_NO", "SELL_NO"} -> parse_dollars(market.no_ask_dollars)
    [] OTHER -> None

\* _pick_price_dollars
pick_price_dollars(market, direction) ==
  CASE direction = "BUY_YES" -> parse_dollars(market.yes_ask_dollars)
    [] direction = "SELL_YES" -> parse_dollars(market.yes_bid_dollars)
    [] direction = "BUY_NO" -> parse_dollars(market.no_ask_dollars)
    [] direction = "SELL_NO" -> parse_dollars(market.no_bid_dollars)
    [] OTHER -> None
\* f"Market not tradable (status={m.get('status')})."
NotTradableWarning(status) ==
  CASE status = "closed" -> "Market not tradable (status=closed)."
    [] status = "" -> "Market not tradable (status=None)."
    [] OTHER -> "Market not tradable."

\* ------------------------------------------------------------ the pricing
\* Leg objects live in a heap (a sequence of leg records, an object's
\* reference is its index), so that copying and in-place assignment are
\* different things.  A list of legs is a sequence of references.

\* Mutant of overridden: the override's weight is taken as it is.
overridden_unclamped(leg, o) ==
  IF ~o.present THEN leg
  ELSE [leg EXCEPT
          !.enabled = IF o.enabled # "unset" THEN o.enabled = "yes" ELSE @,
          !.direction = IF o.direction # "unset" THEN o.direction ELSE @,
          !.weight = IF o.weight.kind # "none"
                     THEN IF o.weight.val >= 0 THEN Rat(o.weight.val, WDen)
                          ELSE <<o.weight.val, WDen>>
                     ELSE @]

\* The object _apply_overrides appends for a leg: a deep copy (no override
\* for its market) or BasketLeg(**d) with the override's fields set.
overridden(leg, o) ==
  IF ~o.present THEN leg
  ELSE [leg EXCEPT
          !.enabled = IF o.enabled # "unset" THEN o.enabled = "yes" ELSE @,
          !.direction = IF o.direction # "unset" THEN o.direction ELSE @,
          !.weight = IF o.weight.kind # "none"
                     THEN RatMax(<<0, 1>>, RatMin(<<1, 1>>, Rat(o.weight.val, WDen)))
                     ELSE @]

\* Mutant of apply_overrides: a leg without an override is appended as it
\* is (the theme's own object), not as a copy.
apply_overrides_shallow(heap, legs, overrides) ==
  [heap |-> heap \o [i \in 1..Len(legs) |->
                       overridden(heap[legs[i]], overrides[heap[legs[i]].market_ticker])],
   out |-> [i \in 1..Len(legs) |->
              IF overrides[heap[legs[i]].market_ticker].present
              THEN Len(heap) + i ELSE legs[i]]]

\* _apply_overrides: every leg is appended to `out` as a NEW object, so
\* the i-th leg of `out` is the i-th object allocated.
apply_overrides(heap, legs, overrides) ==
  [heap |-> heap \o [i \in 1..Len(legs) |->
                       overridden(heap[legs[i]], overrides[heap[legs[i]].market_ticker])],
   out |-> [i \in 1..Len(legs) |-> Len(heap) + i]]

\* [l for l in legs if l.enabled], as references
enabled_of(heap, legs) == SelectSeq(legs, LAMBDA r : heap[r].enabled)

\* sum(l.weight for l in enabled)
RECURSIVE sum_weights_from(_, _, _, _)
sum_weights_from(heap, refs, k, acc) ==
  IF acc[2] > 0 /\ k <= Len(refs)
  THEN sum_weights_from(heap, refs, k + 1, RatAdd(acc, heap[refs[k]].weight))
  ELSE acc

sum_weights(heap, refs) == sum_weights_from(heap, refs, 1, <<0, 1>>)

\* for l in enabled: l.weight /= total   (assignment to the object itself;
\* the objects of a leg list are distinct)
divide_weights(heap, refs, total) ==
  [r \in 1..Len(heap) |->
     IF \E k \in 1..Len(refs) : refs[k] = r
     THEN [heap[r] EXCEPT !.weight = RatDiv(@, total)]
     ELSE heap[r]]

\* Mutant of normalize_weights: the total taken over all legs, enabled or not.
normalize_weights_total_of_all(heap, legs) ==
  IF RatLe(sum_weights(heap, legs), <<0, 1>>) THEN heap
  ELSE divide_weights(heap, enabled_of(heap, legs), sum_weights(heap, legs))

\* _normalize_weights: returns the heap after the in-place division.
normalize_weights(heap, legs) ==
  LET enabled == enabled_of(heap, legs)
      total == sum_weights(heap, enabled)
  IN  IF RatLe(total, <<0, 1>>) THEN heap
      ELSE divide_weights(heap, enabled, total)
\* Mutant of floor_div: the quotient rounded to the nearest count.
floor_div_nearest(num, den, price) == (2 * num + den * price) \div (2 * den * price)

\* Mutant of floor_div: the quotient rounded up.
floor_div_ceiling(num, den, price) == (num + den * price - 1) \div (den * price)

\* leg_budget // price for leg_budget = num/den units and price in units:
\* the floor of the exact quotient.
floor_div(num, den, price) == num \div (den * price)

\* Mutant of leg_not_found: the leg is reported like a leg without a price.
leg_not_found_as_unpriced(leg) ==
  [market_ticker |-> leg.market_ticker, direction |-> leg.direction,
   price_dollars |-> 0, contracts |-> 0, est_cost_dollars |-> 0,
   warnings |-> <<"Missing or invalid bid/ask.">>]

\* The BasketOrderPreviewLeg appended for a leg whose market has no snapshot.
leg_not_found(leg) ==
  [market_ticker |-> leg.market_ticker, direction |-> leg.direction,
   price_dollars |-> 0, contracts |-> 0, est_cost_dollars |-> 0,
   warnings |-> <<"Market not found.">>]

\* The body of the loop of preview for one enabled leg and the snapshot m
\* found for its market (m.present = FALSE: snapshots.get() gave None).
price_leg(leg, m, total_budget_dollars) ==
  LET base == [market_ticker |-> leg.market_ticker, direction |-> leg.direction,
               price_dollars |-> 0, contracts |-> 0, est_cost_dollars |-> 0,
               warnings |-> <<>>]
  IN  IF ~m.present
      THEN leg_not_found(leg)
      ELSE
        LET w0 == IF ~is_tradable(m) THEN <<NotTradableWarning(m.status)>> ELSE <<>>
            price == pick_price_dollars(m, leg.direction)
        IN  IF price.kind = "none" \/ price.val <= 0
            THEN [base EXCEPT !.warnings = Append(w0, "Missing or invalid bid/ask.")]
            ELSE
              LET contracts == floor_div(total_budget_dollars * leg.weight[1],
                                         leg.weight[2], price.val)
                  w1 == IF contracts < 1
                        THEN Append(w0, "Budget too small for at least 1 contract.")
                        ELSE w0
                  cost == IF contracts >= 1 THEN contracts * price.val ELSE 0
              IN  [base EXCEPT !.price_dollars = price.val,
                               !.contracts = IF contracts > 0 THEN contracts ELSE 0,
                               !.est_cost_dollars = Round4(cost),
                               !.warnings = w1]

\* Mutant of price_legs: a leg without a snapshot is skipped, not appended.
price_legs_skip_missing(heap, enabled, snapshots, total_budget_dollars) ==
  SelectSeq([k \in 1..Len(enabled) |->
               price_leg(heap[enabled[k]], snapshots[heap[enabled[k]].market_ticker],
                         total_budget_dollars)],
            LAMBDA l : l.warnings # <<"Market not found.">>)

\* for leg in enabled: ... preview_legs.append(...)
price_legs(heap, enabled, snapshots, total_budget_dollars) ==
  [k \in 1..Len(enabled) |->
     price_leg(heap[enabled[k]], snapshots[heap[enabled[k]].market_ticker],
               total_budget_dollars)]

\* sum(p.est_cost_dollars for p in preview_legs)
RECURSIVE sum_costs_from(_, _, _)
sum_costs_from(preview_legs, k, acc) ==
  IF acc >= 0 /\ k <= Len(preview_legs)
  THEN sum_costs_from(preview_legs, k + 1, acc + preview_legs[k].est_cost_dollars)
  ELSE acc

sum_costs(preview_legs) == sum_costs_from(preview_legs, 1, 0)

\* [l.market_ticker for l in enabled]
tickers_of(heap, enabled) ==
  [i \in 1..Len(enabled) |-> heap[enabled[i]].market_ticker]

\* all_warnings of preview: created empty and returned; the loop appends
\* to leg_warnings only.
all_warnings_of(preview_legs) == <<>>

\* preview(theme, total_budget_dollars, overrides, kalshi), the theme's legs
\* being the references `legs` into `heap`.  exchange.ok = FALSE: the
\* snapshot request raises (raise_for_status) and so does preview.
\* Returns the heap the call leaves, whether it raised, the get_markets
\* calls it made (the tickers of each) and the BasketOrderPreview returned.
\* The steps are operators of their own, each handed the locals it reads.
EmptyPreview(total_budget_dollars) ==
  [total_budget_dollars |-> total_budget_dollars, legs |-> <<>>,
   est_total_cost_dollars |-> 0, warnings |-> <<>>]

\* Mutant of preview_return: legs with a warning are left out of the total.
preview_return_skip_warned(h2, tickers, preview_legs, total_budget_dollars) ==
  [heap |-> h2, work |-> <<>>, applied |-> <<>>, raised |-> FALSE, fetched |-> <<tickers>>,
   result |-> [total_budget_dollars |-> total_budget_dollars,
               legs |-> preview_legs,
               est_total_cost_dollars |->
                 Round4(sum_costs(SelectSeq(preview_legs, LAMBDA l : l.warnings = <<>>))),
               warnings |-> <<>>]]

\* est_total = sum(...); return BasketOrderPreview(...)
preview_return(h2, tickers, preview_legs, total_budget_dollars) ==
  [heap |-> h2, work |-> <<>>, applied |-> <<>>, raised |-> FALSE, fetched |-> <<tickers>>,
   result |-> [total_budget_dollars |-> total_budget_dollars,
               legs |-> preview_legs,
               est_total_cost_dollars |-> Round4(sum_costs(preview_legs)),
               warnings |-> all_warnings_of(preview_legs)]]

\* Mutant of preview_fetch: one get_markets call per enabled leg.
preview_fetch_per_leg(h2, enabled, tickers, total_budget_dollars, exchange) ==
  [(IF ~exchange.ok
    THEN [heap |-> h2, work |-> <<>>, applied |-> <<>>, raised |-> TRUE,
          fetched |-> <<>>, result |-> EmptyPreview(total_budget_dollars)]
    ELSE preview_return(h2, tickers,
                        price_legs(h2, enabled, exchange.markets, total_budget_dollars),
                        total_budget_dollars))
     EXCEPT !.fetched = [i \in 1..Len(tickers) |-> <<tickers[i]>>]]

\* snapshots = kalshi.get_markets(tickers), then the loop over enabled
preview_fetch(h2, enabled, tickers, total_budget_dollars, exchange) ==
  IF ~exchange.ok
  THEN [heap |-> h2, work |-> <<>>, applied |-> <<>>, raised |-> TRUE, fetched |-> <<tickers>>,
        result |-> EmptyPreview(total_budget_dollars)]
  ELSE preview_return(h2, tickers,
                      price_legs(h2, enabled, exchange.markets, total_budget_dollars),
                      total_budget_dollars)

\* Mutant of preview_enabled: no early return when no leg is enabled.
preview_enabled_no_return(ao, enabled, total_budget_dollars, exchange) ==
  preview_fetch(normalize_weights(ao.heap, ao.out), enabled,
                tickers_of(ao.heap, enabled), total_budget_dollars, exchange)

\* if not enabled: return ...; _normalize_weights(legs); tickers = [...]
preview_enabled(ao, enabled, total_budget_dollars, exchange) ==
  IF enabled = <<>>
  THEN [heap |-> ao.heap, work |-> <<>>, applied |-> <<>>, raised |-> FALSE, fetched |-> <<>>,
        result |-> [EmptyPreview(total_budget_dollars)
                      EXCEPT !.warnings = <<"No legs enabled.">>]]
  ELSE preview_fetch(normalize_weights(ao.heap, ao.out), enabled,
                     tickers_of(ao.heap, enabled), total_budget_dollars, exchange)

\* enabled = [l for l in legs if l.enabled]; `work` is the local list
\* `legs`, whose objects the call leaves as they are in the returned heap,
\* and `applied` the objects of that list as _apply_overrides returned them.
preview_legs_of(ao, total_budget_dollars, exchange) ==
  [preview_enabled(ao, enabled_of(ao.heap, ao.out), total_budget_dollars, exchange)
     EXCEPT !.work = ao.out,
            !.applied = [i \in 1..Len(ao.out) |-> ao.heap[ao.out[i]]]]

\* legs = _apply_overrides(theme.legs, overrides)
preview(heap, legs, total_budget_dollars, overrides, exchange) ==
  preview_legs_of(apply_overrides(heap, legs, overrides), total_budget_dollars, exchange)

\* ---------------------------------------------------------- the execution
\* A field a dict does not carry.
Absent == [int |-> -1, frac |-> <<>>]

\* "0".."9" of the fractional part, most significant first
FracDigits(f) ==
  <<f \div 1000, (f \div 100) % 10, (f \div 10) % 10, f % 10>>

\* str.rstrip("0") on a digit sequence
RECURSIVE rstrip0(_)
rstrip0(ds) ==
  IF ds # <<>> /\ ds[Len(ds)] = 0 THEN rstrip0(SubSeq(ds, 1, Len(ds) - 1)) ELSE ds

\* Mutant of price_str: no ".0" is appended to a price without a fraction.
price_str_bare(price_dollars) ==
  [int |-> Round4(price_dollars) \div Scale,
   frac |-> rstrip0(FracDigits((Round4(price_dollars) % Scale) \div Tick))]

\* f"{price:.4f}".rstrip("0").rstrip("."), then ".0" appended when no "."
\* is left: the integer part and the digits after the point.  (The integer
\* part of a price keeps its digits: rstrip("0") stops at the point, or the
\* point is stripped second.)
price_str(price_dollars) ==
  LET r == Round4(price_dollars)
      ds == rstrip0(FracDigits((r % Scale) \div Tick))
  IN  [int |-> r \div Scale, frac |-> IF ds = <<>> THEN <<0>> ELSE ds]

\* Mutant of to_kalshi_order: the key carries no market.
to_kalshi_order_no_market(leg, direction, basket_id, suffix) ==
  IF leg.contracts <= 0 THEN None
  ELSE
    [kind |-> "order",
     ticker |-> leg.market_ticker,
     side |-> IF direction \in {"BUY_YES", "SELL_YES"} THEN "yes" ELSE "no",
     action |-> IF direction \in {"BUY_YES", "BUY_NO"} THEN "buy" ELSE "sell",
     count |-> leg.contracts,
     client_order_id |-> <<basket_id, "", suffix>>,
     time_in_force |-> "immediate_or_cancel",
     yes_price_dollars |-> IF direction \in {"BUY_YES", "SELL_YES"}
                           THEN price_str(leg.price_dollars) ELSE Absent,
     no_price_dollars |-> IF direction \in {"BUY_YES", "SELL_YES"}
                          THEN Absent ELSE price_str(leg.price_dollars)]

\* Mutant of to_kalshi_order: the price is attached under both price fields.
to_kalshi_order_both_prices(leg, direction, basket_id, suffix) ==
  IF leg.contracts <= 0 THEN None
  ELSE
    [kind |-> "order",
     ticker |-> leg.market_ticker,
     side |-> IF direction \in {"BUY_YES", "SELL_YES"} THEN "yes" ELSE "no",
     action |-> IF direction \in {"BUY_YES", "BUY_NO"} THEN "buy" ELSE "sell",
     count |-> leg.contracts,
     client_order_id |-> <<basket_id, leg.market_ticker, suffix>>,
     time_in_force |-> "immediate_or_cancel",
     yes_price_dollars |-> price_str(leg.price_dollars),
     no_price_dollars |-> price_str(leg.price_dollars)]

\* _to_kalshi_order; `suffix` is uuid.uuid4().hex[:8].  None when
\* contracts <= 0.
to_kalshi_order(leg, direction, basket_id, suffix) ==
  IF leg.contracts <= 0 THEN None
  ELSE
    LET is_yes == direction \in {"BUY_YES", "SELL_YES"}
        action == IF direction \in {"BUY_YES", "BUY_NO"} THEN "buy" ELSE "sell"
    IN  [kind |-> "order",
         ticker |-> leg.market_ticker,
         side |-> IF is_yes THEN "yes" ELSE "no",
         action |-> action,
         count |-> leg.contracts,
         client_order_id |-> <<basket_id, leg.market_ticker, suffix>>,
         time_in_force |-> "immediate_or_cancel",
         yes_price_dollars |-> IF is_yes THEN price_str(leg.price_dollars) ELSE Absent,
         no_price_dollars |-> IF is_yes THEN Absent ELSE price_str(leg.price_dollars)]

\* [_to_kalshi_order(leg, leg.direction, theme.theme_id) for leg in pre.legs
\*  if leg.contracts > 0], then the None results dropped.  uuids[k] is the
\* k-th uuid drawn (one per call of _to_kalshi_order that builds an order).
with_contracts(pre_legs) == SelectSeq(pre_legs, LAMBDA l : l.contracts > 0)

translate_all(legs, basket_id, uuids) ==
  SelectSeq([k \in 1..Len(legs) |->
               to_kalshi_order(legs[k], legs[k].direction, basket_id, uuids[k])],
            LAMBDA x : x.kind # "none")

translate(pre_legs, basket_id, uuids) ==
  translate_all(with_contracts(pre_legs), basket_id, uuids)

\* The batch response.  An item of resp["orders"] carries "order" (the
\* created order echoed: ticker, order_id, status) or not, "client_order_id"
\* or not, and "error": none, a dict with a message, a dict without one, or
\* a raw (truthy, non-dict) value.
NoId == <<>>
NoError == [kind |-> "none", text |-> ""]
NoText == "<None>"

\* The items the exchange answers to_send with, for a response shape: one
\* item per order except the last `drop` ones; item err_at carries the error
\* and no order.
response_items(to_send, shape) ==
  [i \in 1..(Len(to_send) - shape.drop) |->
     LET failed == (i = shape.err_at)
     IN  [has_order |-> shape.echo /\ ~failed,
          order_ticker |-> to_send[i].ticker,
          order_id |-> i,
          status |-> "executed",
          client_order_id |-> IF shape.cid THEN to_send[i].client_order_id ELSE NoId,
          error |-> IF failed THEN shape.err ELSE NoError]]

\* for o in to_send: if o.get("client_order_id") == client_id: ticker = ...
RECURSIVE ticker_by_client_id(_, _)
ticker_by_client_id(to_send, client_id) ==
  IF to_send = <<>> THEN NoText
  ELSE IF Head(to_send).client_order_id = client_id THEN Head(to_send).ticker
  ELSE ticker_by_client_id(Tail(to_send), client_id)

\* err.get("message") if isinstance(err, dict) else str(err) if err else None
error_text(err) ==
  CASE err.kind = "dict_msg" -> err.text
    [] err.kind = "dict_nomsg" -> NoText
    [] err.kind = "raw" -> err.text
    [] OTHER -> NoText

\* Mutant of result_of: the ticker is taken from the echoed order only.
result_of_echo_only(item, to_send) ==
  [market_ticker |-> IF item.has_order THEN item.order_ticker ELSE "?",
   client_order_id |-> item.client_order_id,
   order_id |-> IF item.has_order THEN item.order_id ELSE 0,
   status |-> IF item.has_order THEN item.status ELSE NoText,
   error |-> error_text(item.error)]

\* The dict appended to results for one response item.
result_of(item, to_send) ==
  LET ticker == IF item.has_order THEN item.order_ticker
                ELSE IF to_send # <<>> /\ item.client_order_id # NoId
                     THEN ticker_by_client_id(to_send, item.client_order_id)
                     ELSE NoText
  IN  [market_ticker |-> IF ticker = NoText THEN "?" ELSE ticker,
       client_order_id |-> item.client_order_id,
       order_id |-> IF item.has_order THEN item.order_id ELSE 0,
       status |-> IF item.has_order THEN item.status ELSE NoText,
       error |-> error_text(item.error)]

\* ---------------------------------------------------- the exchange client
\* KalshiClient._get_key: a key is loaded (and truthy) when KALSHI_API_KEY_ID
\* and one of KALSHI_PRIVATE_KEY_PEM, KALSHI_PRIVATE_KEY_PATH are set.
get_key(config) == config.api_key_id /\ (config.pem \/ config.path)

\* f"HTTP {r.status_code}"
StatusText(status) ==
  CASE status = 400 -> "HTTP 400"
    [] status = 500 -> "HTTP 500"
    [] OTHER -> "HTTP ???"

\* The message of the HTTPStatusError raised for a status >= 400:
\* e.get("message") or err.get("message") or r.text or f"HTTP {status}",
\* and r.text or f"HTTP {status}" when the body is no JSON object.
\* ("" stands for an absent or empty field.)
http_error_message(r) ==
  IF r.json /\ r.error_message # "" THEN r.error_message
  ELSE IF r.json /\ r.message # "" THEN r.message
  ELSE IF r.text # "" THEN r.text
  ELSE StatusText(r.status)

\* KalshiClient.get_open_markets(limit), one iteration of its loop at a
\* time.  A market object is <<page, position>>: the page it came on and its
\* place there.
\* if not cursor or len(markets) == 0 or len(all_markets) >= limit: break
open_markets_stop(cursor, markets, all_markets, limit) ==
  ~cursor \/ Len(markets) = 0 \/ Len(all_markets) >= limit

\* Mutant of open_markets_slice: everything accumulated is returned.
open_markets_unsliced(all_markets, limit) == all_markets

\* all_markets[:limit] (a negative limit counts from the end)
open_markets_slice(all_markets, limit) ==
  IF limit >= 0
  THEN SubSeq(all_markets, 1, IF limit < Len(all_markets) THEN limit ELSE Len(all_markets))
  ELSE SubSeq(all_markets, 1, IF Len(all_markets) + limit > 0
                              THEN Len(all_markets) + limit ELSE 0)

\* The state of a call before its first request: params, all_markets = [].
open_markets_begin(limit) ==
  [pc |-> "loop", limit |-> limit,
   params |-> [limit |-> IF limit < 1000 THEN limit ELSE 1000, cursor |-> FALSE],
   all_markets |-> <<>>, pages |-> <<>>, result |-> <<>>]

\* One iteration: the page `markets` arrives with or without a cursor, is
\* appended, and the loop breaks (and the call returns) or goes on with the
\* cursor in params.  `pages` keeps the pages received.
open_markets_page(call, markets, cursor) ==
  LET all_markets == call.all_markets \o markets
      pages == Append(call.pages, [markets |-> markets, cursor |-> cursor])
  IN  IF open_markets_stop(cursor, markets, all_markets, call.limit)
      THEN [call EXCEPT !.pc = "done", !.all_markets = all_markets, !.pages = pages,
                        !.result = open_markets_slice(all_markets, call.limit)]
      ELSE [call EXCEPT !.all_markets = all_markets, !.pages = pages,
                        !.params = [limit |-> call.params.limit, cursor |-> TRUE]]

\* What batch_create_orders gives its caller, and the POST requests it made.
BatchRaise(text, posts) == [kind |-> "raise", text |-> text, items |-> <<>>, posts |-> posts]
BatchResp(items, posts) == [kind |-> "resp", text |-> "", items |-> items, posts |-> posts]

\* the request of batch_create_orders and what comes of its answer:
\* kalshi.http.kind = "transport": client.post raises (timeout, network);
\* otherwise a response with a status and a body.  r.json() of a 2xx answer
\* is the batch response, whose "orders" list (resp.get("orders", [])) is
\* absent (has_orders = FALSE) or holds the items of http.shape.
batch_post(orders, http) ==
  IF http.kind = "transport" THEN BatchRaise(http.text, <<orders>>)
  ELSE IF http.status >= 400 THEN BatchRaise(http_error_message(http), <<orders>>)
  ELSE BatchResp(IF http.has_orders THEN response_items(orders, http.shape) ELSE <<>>,
                 <<orders>>)

\* batch_create_orders after key = self._get_key(): the check of the key
\* and the request.
batch_with_key(key, orders, http) ==
  IF ~key THEN BatchRaise("Kalshi API key not configured", <<>>)
  ELSE batch_post(orders, http)

\* Mutant of batch_create_orders: the request is sent without a key.
batch_create_orders_unsigned(orders, kalshi) == batch_post(orders, kalshi.http)

\* Mutant of batch_create_orders: a failed request is sent a second time.
batch_create_orders_retry(orders, kalshi) ==
  IF ~get_key(kalshi.config)
  THEN BatchRaise("Kalshi API key not configured", <<>>)
  ELSE IF batch_post(orders, kalshi.http).kind = "raise"
  THEN [batch_post(orders, kalshi.http) EXCEPT !.posts = <<orders, orders>>]
  ELSE batch_post(orders, kalshi.http)

\* KalshiClient.batch_create_orders(orders)
batch_create_orders(orders, kalshi) ==
  IF ~get_key(kalshi.config)
  THEN BatchRaise("Kalshi API key not configured", <<>>)
  ELSE batch_post(orders, kalshi.http)

\* execute(theme, total_budget_dollars, overrides, kalshi).  `sent` lists
\* the batch_create_orders calls made, `posts` the POST requests those made,
\* to_send the translated orders.
ExecuteBase(pre, to_send) ==
  [heap |-> pre.heap, pre |-> pre, raised |-> FALSE, success |-> FALSE,
   message |-> "", results |-> <<>>, to_send |-> to_send, sent |-> <<>>,
   posts |-> <<>>]

\* success = not any(r.get("error") for r in results); msg = ...
execute_return(pre, to_send, posts, results, success) ==
  [ExecuteBase(pre, to_send) EXCEPT
     !.success = success,
     !.message = IF success THEN "Batch submitted."
                 ELSE "Some orders failed; check per-leg results.",
     !.results = results,
     !.sent = <<to_send>>,
     !.posts = posts]

\* Mutant of no_error: one result without an error is enough.
no_error_some(results) ==
  results = <<>> \/ \E i \in 1..Len(results) : results[i].error = NoText

no_error(results) == \A i \in 1..Len(results) : results[i].error = NoText

execute_results(pre, to_send, posts, results) ==
  execute_return(pre, to_send, posts, results, no_error(results))

\* for item in resp.get("orders", []): results.append({...})
execute_items(pre, to_send, posts, items) ==
  execute_results(pre, to_send, posts,
                  [i \in 1..Len(items) |-> result_of(items[i], to_send)])

\* Mutant of execute_batch: the exception of the batch call is not caught.
execute_batch_propagate(pre, to_send, batch) ==
  IF batch.kind = "raise"
  THEN [ExecuteBase(pre, to_send) EXCEPT !.raised = TRUE, !.sent = <<to_send>>,
                                         !.posts = batch.posts]
  ELSE execute_items(pre, to_send, batch.posts, batch.items)

\* try: resp = ... except Exception as e: return False, str(e), []
execute_batch(pre, to_send, batch) ==
  IF batch.kind = "raise"
  THEN [ExecuteBase(pre, to_send) EXCEPT !.message = batch.text, !.sent = <<to_send>>,
                                         !.posts = batch.posts]
  ELSE execute_items(pre, to_send, batch.posts, batch.items)

\* Mutant of execute_send: the limit is compared one off.
execute_send_one_off(pre, to_send, kalshi) ==
  IF to_send = <<>>
  THEN [ExecuteBase(pre, to_send) EXCEPT !.message =
          "No orders to place (all legs have 0 contracts or errors)."]
  ELSE IF Len(to_send) > BATCH_ORDER_LIMIT + 1
  THEN [ExecuteBase(pre, to_send) EXCEPT !.message = "Too many legs (max 20)."]
  ELSE execute_batch(pre, to_send, batch_create_orders(to_send, kalshi))

\* the guards on to_send, then resp = kalshi.batch_create_orders(to_send)
execute_send(pre, to_send, kalshi) ==
  IF to_send = <<>>
  THEN [ExecuteBase(pre, to_send) EXCEPT !.message =
          "No orders to place (all legs have 0 contracts or errors)."]
  ELSE IF Len(to_send) > BATCH_ORDER_LIMIT
  THEN [ExecuteBase(pre, to_send) EXCEPT !.message = "Too many legs (max 20)."]
  ELSE execute_batch(pre, to_send, batch_create_orders(to_send, kalshi))

\* pre = preview(...) (an exception of preview is not caught); to_send = [...]
execute_pre(pre, theme_id, uuids, kalshi) ==
  IF pre.raised THEN [ExecuteBase(pre, <<>>) EXCEPT !.raised = TRUE]
  ELSE execute_send(pre, translate(pre.result.legs, theme_id, uuids), kalshi)

execute(heap, legs, theme_id, total_budget_dollars, overrides, exchange, uuids, kalshi) ==
  execute_pre(preview(heap, legs, total_budget_dollars, overrides, exchange),
              theme_id, uuids, kalshi)

\* ------------------------------------------------------------ input sets
Leg(m, dir, w, en) ==
  [market_ticker |-> m, direction |-> dir, weight |-> Rat(w, WDen), enabled |-> en]

\* What a leg of a theme can be, apart from its market: BasketLeg validates
\* 0 <= weight <= 1.
LegShapes ==
  { <<"BUY_YES", 6, TRUE>>, <<"SELL_NO", 4, TRUE>>, <<"BUY_NO", 4, FALSE>> }

\* Themes of up to MaxLegs legs, leg i on market MarketAt(i).
OrdinaryThemes ==
  UNION { { [i \in 1..n |-> Leg(MarketAt(i), f[i][1], f[i][2], f[i][3])] :
            f \in [1..n -> LegShapes] } : n \in 0..MaxLegs }

\* Themes as wide as the batch limit and one wider: n legs of weight 1.
WideTheme(n) == [i \in 1..n |-> Leg(MarketAt(i), "BUY_YES", WDen, TRUE)]
ThemeChoices ==
  OrdinaryThemes \cup {WideTheme(BATCH_ORDER_LIMIT), WideTheme(BATCH_ORDER_LIMIT + 1)}

Dollars(d) == d * Scale
\* PreviewRequest/ExecuteRequest validate total_budget_dollars > 0.
\* $50 and $0.99998 (too small for a contract at $1.00).
BudgetChoices == {Dollars(50), Dollars(1) - 1}

Override(en, dir, w) == [present |-> TRUE, enabled |-> en, direction |-> dir, weight |-> w]
NoOverride == [present |-> FALSE, enabled |-> "unset", direction |-> "unset", weight |-> None]
\* LegOverride: every field optional; weight is any float (here in tenths).
OverrideChoices ==
  { NoOverride,
    Override("no", "unset", Num(3)),
    Override("yes", "SELL_YES", Num(15)),
    Override("unset", "BUY_NO", Num(-5)) }

Snapshot(st, ya, yb, na, nb) ==
  [present |-> TRUE, status |-> st, yes_ask_dollars |-> ya, yes_bid_dollars |-> yb,
   no_ask_dollars |-> na, no_bid_dollars |-> nb]
NoSnapshot == [present |-> FALSE, status |-> "", yes_ask_dollars |-> None,
               yes_bid_dollars |-> None, no_ask_dollars |-> None, no_bid_dollars |-> None]
\* $0.50, $0.25, $0.99998 and $0.45 as amounts
Half == Scale \div 2
Quarter == Scale \div 4
SubTick == Scale - 1
Cents45 == (45 * Scale) \div 100
SnapshotChoices ==
  { NoSnapshot,
    Snapshot("active", Str(Half), Num(SubTick), Str(3 * Quarter), Str(Quarter)),
    Snapshot("Open", Str(Quarter), Num(0), None, Bad),
    Snapshot("closed", Str(Cents45), Num(Dollars(1)), Str(3 * Quarter), Str(-Quarter)) }

ExchangeChoices ==
  { [ok |-> FALSE, markets |-> [m \in Markets |-> NoSnapshot]] }
  \cup { [ok |-> TRUE, markets |-> f] : f \in [Markets -> SnapshotChoices] }

Shape(echo, cid, err_at, err, drop) ==
  [echo |-> echo, cid |-> cid, err_at |-> err_at, err |-> err, drop |-> drop]
NoShape == Shape(FALSE, FALSE, 0, NoError, 0)
\* The answers to the POST: a 2xx response with a batch body, a status
\* >= 400 with its body, or no answer (the request raises).
Resp(shape) ==
  [kind |-> "response", status |-> 201, json |-> TRUE, error_message |-> "",
   message |-> "", text |-> "{...}", has_orders |-> TRUE, shape |-> shape]
Failed(status, json, error_message, message, text) ==
  [kind |-> "response", status |-> status, json |-> json,
   error_message |-> error_message, message |-> message, text |-> text,
   has_orders |-> FALSE, shape |-> NoShape]
Transport(text) ==
  [kind |-> "transport", status |-> 0, json |-> FALSE, error_message |-> "",
   message |-> "", text |-> text, has_orders |-> FALSE, shape |-> NoShape]
HttpChoices ==
  { Transport("timed out"),
    Failed(400, TRUE, "insufficient balance", "", "{...}"),
    Failed(500, FALSE, "", "", ""),
    [Resp(NoShape) EXCEPT !.has_orders = FALSE],
    Resp(Shape(TRUE, TRUE, 0, NoError, 0)),
    Resp(Shape(FALSE, TRUE, 0, NoError, 0)),
    Resp(Shape(TRUE, FALSE, 0, NoError, 1)),
    Resp(Shape(TRUE, TRUE, 1, [kind |-> "dict_msg", text |-> "insufficient balance"], 0)),
    Resp(Shape(TRUE, TRUE, 2, [kind |-> "dict_nomsg", text |-> ""], 0)),
    Resp(Shape(FALSE, FALSE, 1, [kind |-> "raw", text |-> "rejected"], 0)) }

\* The configuration (app.config) and the exchange as a call of
\* batch_create_orders finds them.
Config(id, pem, path) == [api_key_id |-> id, pem |-> pem, path |-> path]
Kalshi(config, http) == [config |-> config, http |-> http]
KalshiChoices ==
  { Kalshi(Config(TRUE, FALSE, FALSE), Resp(Shape(TRUE, TRUE, 0, NoError, 0))),
    Kalshi(Config(FALSE, TRUE, FALSE), Resp(Shape(TRUE, TRUE, 0, NoError, 0))) }
  \cup { Kalshi(Config(TRUE, TRUE, FALSE), h) : h \in HttpChoices }

\* uuid.uuid4().hex[:8] for the k-th order of a call: all different, or
\* all the same draw.
UuidChoices == { [k \in 1..(BATCH_ORDER_LIMIT + 1) |-> k],
                 [k \in 1..(BATCH_ORDER_LIMIT + 1) |-> 1] }

\* ------------------------------------------------------------- the system
VARIABLES
  themeLegs,   \* the legs of the caller's theme object (theme.legs)
  origLegs,    \* the legs as the theme was constructed (history)
  last,        \* the last call: its operation, inputs and outcome
  prev,        \* the outcome of the call before a repeated preview or execute
  om,          \* a call of get_open_markets: its position and locals
  cc           \* handlers running concurrently: the module's and the
               \* client's lazily set attributes, and each call's locals

vars == <<themeLegs, origLegs, last, prev, om, cc>>

\* The attributes set on first use: main._themes, main._kalshi and
\* KalshiClient._key.
ConcSlots == {"themes", "kalshi", "key"}
\* No handler is running concurrently with another.
CcIdle ==
  [slots |-> [l \in ConcSlots |-> FALSE],
   legs_writer |-> 0,
   reads |-> {},
   config |-> [api_key_id |-> FALSE, pem |-> FALSE, path |-> FALSE],
   calls |-> <<>>]

\* No call of get_open_markets is running.
OmIdle == [pc |-> "idle", limit |-> 0, params |-> [limit |-> 0, cursor |-> FALSE],
           all_markets |-> <<>>, pages |-> <<>>, result |-> <<>>]

BasketId == "basket"
NoCall == [op |-> "none"]
ThemeRefs == [i \in 1..Len(themeLegs) |-> i]
\* What the call leaves of the heap: the theme's own leg objects.
ThemePart(heap) == SubSeq(heap, 1, Len(themeLegs))

\* What the caller gets from preview and what it did on the way (the
\* get_markets calls, and its working leg list as the call leaves it).
PreviewOutcome(r) ==
  [raised |-> r.raised, fetched |-> r.fetched, result |-> r.result,
   applied |-> r.applied,
   legs |-> [i \in 1..Len(r.work) |-> r.heap[r.work[i]]]]
\* What the caller gets from execute and what it did on the way.
ExecuteOutcome(r) ==
  [raised |-> r.raised, success |-> r.success, message |-> r.message,
   results |-> r.results, sent |-> r.sent, posts |-> r.posts]

\* The inputs a call of execute consumes: it draws uuids only when it
\* translates an order and reaches the exchange only with 1..20 orders.
NoUuids == [k \in 1..(BATCH_ORDER_LIMIT + 1) |-> k]
NoKalshi == Kalshi(Config(FALSE, FALSE, FALSE), Transport(""))
\* The uuid draws and the exchange client of an execute call that submits
\* n orders: every client with draws that all differ, and repeated draws
\* with a request that times out and with a response that echoes the
\* client_order_id only.
DrawsFor(n) ==
  IF n = 0 \/ n > BATCH_ORDER_LIMIT
  THEN {[uuids |-> NoUuids, kalshi |-> NoKalshi]}
  ELSE { [uuids |-> NoUuids, kalshi |-> k] : k \in KalshiChoices }
       \cup { [uuids |-> u, kalshi |-> Kalshi(Config(TRUE, TRUE, FALSE), h)] :
                u \in UuidChoices \ {NoUuids},
                h \in {Transport("timed out"), Resp(Shape(FALSE, TRUE, 0, NoError, 0))} }

Init ==
  /\ themeLegs \in ThemeChoices
  /\ origLegs = themeLegs
  /\ last = NoCall
  /\ prev = NoCall
  /\ om = OmIdle
  /\ cc = CcIdle

\* POST /basket/preview: preview(theme, budget, overrides, kalshi)
Preview ==
  /\ last.op = "none"
  /\ \E b \in BudgetChoices, ov \in [Markets -> OverrideChoices], ex \in ExchangeChoices :
    LET r == preview(themeLegs, ThemeRefs, b, ov, ex)
    IN  /\ themeLegs' = ThemePart(r.heap)
        /\ last' = [op |-> "preview", total_budget_dollars |-> b, overrides |-> ov,
                    exchange |-> ex, pre |-> PreviewOutcome(r)]
        /\ prev' = NoCall
        /\ UNCHANGED <<origLegs, om, cc>>

\* The same request again, served the same snapshots.
PreviewAgain ==
  /\ last.op = "preview"
  /\ prev.op = "none"
  /\ LET r == preview(themeLegs, ThemeRefs, last.total_budget_dollars,
                      last.overrides, last.exchange)
     IN  /\ themeLegs' = ThemePart(r.heap)
         /\ last' = [last EXCEPT !.pre = PreviewOutcome(r)]
         /\ prev' = [op |-> "preview", pre |-> last.pre]
         /\ UNCHANGED <<origLegs, om, cc>>

\* POST /basket/execute: execute(theme, budget, overrides, kalshi)
Execute ==
  /\ last.op = "none"
  /\ \E b \in BudgetChoices, ov \in [Markets -> OverrideChoices], ex \in ExchangeChoices :
      LET n == Len(execute(themeLegs, ThemeRefs, BasketId, b, ov, ex, NoUuids,
                           NoKalshi).to_send)
      IN  \E d \in DrawsFor(n) :
            LET r == execute(themeLegs, ThemeRefs, BasketId, b, ov, ex, d.uuids, d.kalshi)
            IN  /\ themeLegs' = ThemePart(r.heap)
                /\ last' = [op |-> "execute", total_budget_dollars |-> b,
                            overrides |-> ov, exchange |-> ex, kalshi |-> d.kalshi,
                            uuids |-> d.uuids,
                            pre |-> PreviewOutcome(r.pre), exec |-> ExecuteOutcome(r)]
                /\ prev' = NoCall
                /\ UNCHANGED <<origLegs, om, cc>>

\* The caller retries a basket whose submission got no answer (a timeout
\* or network failure): the same request again, the exchange as before,
\* new uuid draws.
ExecuteAgain ==
  /\ last.op = "execute"
  /\ prev.op = "none"
  /\ last.exec.sent # <<>>
  /\ last.kalshi.http.kind = "transport"
  /\ \E uuids \in UuidChoices :
       LET r == execute(themeLegs, ThemeRefs, BasketId, last.total_budget_dollars,
                        last.overrides, last.exchange, uuids, last.kalshi)
       IN  /\ themeLegs' = ThemePart(r.heap)
           /\ last' = [last EXCEPT !.uuids = uuids, !.pre = PreviewOutcome(r.pre),
                                   !.exec = ExecuteOutcome(r)]
           /\ prev' = [op |-> "execute", uuids |-> last.uuids, exec |-> last.exec]
           /\ UNCHANGED <<origLegs, om, cc>>

\* The handler's response is delivered; the server is idle again.
Return ==
  /\ last.op # "none"
  /\ last' = NoCall
  /\ prev' = NoCall
  /\ UNCHANGED <<themeLegs, origLegs, om, cc>>

Next == Preview \/ PreviewAgain \/ Execute \/ ExecuteAgain \/ Return

Spec == Init /\ [][Next]_vars

\* ----------------------------------------------- the listing of open markets
\* Bounds of the listing: the limits asked for (0..MaxLimit) and the items
\* the exchange puts on one page (0..MaxPageItems, whatever was asked for).
MaxLimit == 4
MaxPageItems == 3

\* The page the exchange answers the next request with.
PageOf(n) == [i \in 1..n |-> <<Len(om.pages) + 1, i>>]

InitPages ==
  /\ themeLegs = <<>>
  /\ origLegs = <<>>
  /\ last = NoCall
  /\ prev = NoCall
  /\ om = OmIdle
  /\ cc = CcIdle

\* GET /markets/open?limit=...: get_open_markets(limit) is entered.
OpenMarketsCall ==
  /\ om.pc = "idle"
  /\ \E limit \in 0..MaxLimit : om' = open_markets_begin(limit)
  /\ UNCHANGED <<themeLegs, origLegs, last, prev, cc>>

\* A page request returns and the loop body runs to its break or its end.
OpenMarketsPage ==
  /\ om.pc = "loop"
  /\ \E n \in 0..MaxPageItems, cursor \in BOOLEAN :
       om' = open_markets_page(om, PageOf(n), cursor)
  /\ UNCHANGED <<themeLegs, origLegs, last, prev, cc>>

\* A page request returns a status >= 400: raise_for_status raises out of
\* the call.
OpenMarketsFail ==
  /\ om.pc = "loop"
  /\ om' = [om EXCEPT !.pc = "raised"]
  /\ UNCHANGED <<themeLegs, origLegs, last, prev, cc>>

\* The handler's response is delivered.
OpenMarketsReturn ==
  /\ om.pc \in {"done", "raised"}
  /\ om' = OmIdle
  /\ UNCHANGED <<themeLegs, origLegs, last, prev, cc>>

NextPages == OpenMarketsCall \/ OpenMarketsPage \/ OpenMarketsFail \/ OpenMarketsReturn

\* Every page request returns (with a page or with an error status): the
\* request has a timeout, and the loop's thread keeps running.
SpecPages ==
  InitPages /\ [][NextPages]_vars /\ WF_vars(OpenMarketsPage \/ OpenMarketsFail)

\* ------------------------------------------------------- concurrent handlers
\* basket_preview and basket_execute are plain functions, which the server
\* runs on the threads of a pool: NumCalls requests are in flight at once,
\* on the same catalog theme (themeLegs) and the same client.
NumCalls == 2
Calls == 1..NumCalls

\* The catalog theme the calls share: an enabled leg and a disabled one,
\* whose weights do not sum to 1.
ConcThemes ==
  { <<Leg("M1", "BUY_YES", 6, TRUE), Leg("M2", "BUY_NO", 4, FALSE)>> }
ConcOverrides ==
  { [m \in Markets |-> NoOverride],
    [m \in Markets |-> IF m = "M2" THEN Override("yes", "SELL_YES", Num(15))
                       ELSE NoOverride] }
ConcExchange ==
  [ok |-> TRUE,
   markets |-> [m \in Markets |->
                  Snapshot("active", Str(Half), Num(SubTick), Str(3 * Quarter), Str(Quarter))]]
ConcHttp == {Resp(Shape(TRUE, TRUE, 0, NoError, 0)), Transport("timed out")}
ConcConfigs == {Config(TRUE, TRUE, FALSE), Config(FALSE, FALSE, FALSE)}

NoOut == [kind |-> "none"]
CallIdle ==
  [pc |-> "idle", op |-> "none", slot |-> "", key |-> FALSE,
   overrides |-> [m \in Markets |-> NoOverride], own |-> <<>>, work |-> <<>>,
   pre |-> [heap |-> <<>>, raised |-> FALSE, result |-> EmptyPreview(0)],
   to_send |-> <<>>, http |-> Transport(""), out |-> NoOut]

\* Where a call goes on once it holds the attribute.
AfterSlot(slot) ==
  CASE slot = "themes" -> "kalshi"
    [] slot = "kalshi" -> "overrides"
    [] slot = "key" -> "post"

\* What the caller of a handler gets.
PreviewAnswer(r) == [kind |-> "preview", raised |-> r.raised, result |-> r.result]
ExecuteAnswer(r) ==
  [kind |-> "execute", raised |-> r.raised, success |-> r.success,
   message |-> r.message, results |-> r.results, sent |-> r.sent, posts |-> r.posts]

\* The call that wrote the theme's legs last (0: none), when call c leaves
\* them as `legs`.
WriterOfLegs(c, legs) == IF legs = themeLegs THEN cc.legs_writer ELSE c
\* cc.reads notes what a call read that another call had written: the
\* theme's legs written by another call, and an attribute found set (a
\* call tests an attribute before it could have set it itself).
NotedLegsRead(c) ==
  IF cc.legs_writer \notin {0, c} THEN cc.reads \cup {"legs"} ELSE cc.reads
NotedSlotRead(slot) ==
  IF cc.slots[slot] THEN cc.reads \cup {slot} ELSE cc.reads

InitConc ==
  /\ themeLegs \in ConcThemes
  /\ origLegs = themeLegs
  /\ last = NoCall
  /\ prev = NoCall
  /\ om = OmIdle
  /\ \E config \in ConcConfigs :
       cc = [CcIdle EXCEPT !.config = config, !.calls = [c \in Calls |-> CallIdle]]

\* A request arrives and its handler starts on a thread of the pool.
CBegin(c) ==
  /\ cc.calls[c].pc = "idle"
  /\ \E op \in {"preview", "execute"} :
       cc' = [cc EXCEPT !.calls[c].pc = "themes", !.calls[c].op = op]
  /\ UNCHANGED <<themeLegs, origLegs, last, prev, om>>

\* get_themes, get_kalshi, _get_key: `if X is None` is evaluated.  The key
\* is loaded only when it is configured.
CLazyRead(c) ==
  LET slot == cc.calls[c].pc
      loads == ~cc.slots[slot] /\ (slot = "key" => get_key(cc.config))
  IN  /\ slot \in ConcSlots
      /\ cc' = [cc EXCEPT !.reads = NotedSlotRead(slot),
                          !.calls[c].slot = slot,
                          !.calls[c].key = IF slot = "key" THEN cc.slots[slot] ELSE @,
                          !.calls[c].pc = IF loads THEN "load" ELSE AfterSlot(slot)]
      /\ UNCHANGED <<themeLegs, origLegs, last, prev, om>>

\* X = load(): the attribute is assigned, whoever assigned it before.
CLazyLoad(c) ==
  LET slot == cc.calls[c].slot
  IN  /\ cc.calls[c].pc = "load"
      /\ cc' = [cc EXCEPT !.slots[slot] = TRUE,
                          !.calls[c].key = IF slot = "key" THEN TRUE ELSE @,
                          !.calls[c].pc = AfterSlot(slot)]
      /\ UNCHANGED <<themeLegs, origLegs, last, prev, om>>

\* legs = _apply_overrides(theme.legs, overrides): the theme's legs are
\* read, the call's own objects are allocated behind them.
CApplyOverrides(c) ==
  /\ cc.calls[c].pc = "overrides"
  /\ \E ov \in ConcOverrides :
       LET ao == apply_overrides(themeLegs, ThemeRefs, ov)
       IN  /\ themeLegs' = ThemePart(ao.heap)
           /\ cc' = [cc EXCEPT
                       !.reads = NotedLegsRead(c),
                       !.legs_writer = WriterOfLegs(c, ThemePart(ao.heap)),
                       !.calls[c].overrides = ov,
                       !.calls[c].own = SubSeq(ao.heap, Len(themeLegs) + 1, Len(ao.heap)),
                       !.calls[c].work = ao.out,
                       !.calls[c].pc = "price"]
  /\ UNCHANGED <<origLegs, last, prev, om>>

\* The rest of preview: the weights of the call's legs are normalized in
\* place, the snapshots fetched and the legs priced; the call's leg objects
\* are dropped with its frame.
CPrice(c) ==
  /\ cc.calls[c].pc = "price"
  /\ LET call == cc.calls[c]
         heap == themeLegs \o call.own
         r == preview_enabled([heap |-> heap, out |-> call.work],
                              enabled_of(heap, call.work), Dollars(50), ConcExchange)
     IN  /\ themeLegs' = ThemePart(r.heap)
         /\ cc' = [cc EXCEPT
                     !.reads = IF \E i \in 1..Len(call.work) : call.work[i] <= Len(themeLegs)
                               THEN NotedLegsRead(c) ELSE @,
                     !.legs_writer = WriterOfLegs(c, ThemePart(r.heap)),
                     !.calls[c].own = <<>>,
                     !.calls[c].work = <<>>,
                     !.calls[c].pre = [heap |-> <<>>, raised |-> r.raised, result |-> r.result],
                     !.calls[c].out = IF call.op = "preview" THEN PreviewAnswer(r) ELSE @,
                     !.calls[c].pc = IF call.op = "preview" THEN "done" ELSE "send"]
  /\ UNCHANGED <<origLegs, last, prev, om>>

\* execute after pre = preview(...): the orders are translated; without
\* orders, or with too many, it returns, otherwise it calls
\* batch_create_orders, which asks for the key first.
CSend(c) ==
  /\ cc.calls[c].pc = "send"
  /\ LET call == cc.calls[c]
         to_send == translate(call.pre.result.legs, BasketId, NoUuids)
     IN  cc' = IF call.pre.raised \/ to_send = <<>> \/ Len(to_send) > BATCH_ORDER_LIMIT
               THEN [cc EXCEPT
                       !.calls[c].out = ExecuteAnswer(execute_pre(call.pre, BasketId,
                                                                  NoUuids, NoKalshi)),
                       !.calls[c].pc = "done"]
               ELSE [cc EXCEPT !.calls[c].to_send = to_send, !.calls[c].pc = "key"]
  /\ UNCHANGED <<themeLegs, origLegs, last, prev, om>>

\* batch_create_orders with the key the call got, and the rest of execute.
CPost(c) ==
  /\ cc.calls[c].pc = "post"
  /\ \E http \in ConcHttp :
       LET call == cc.calls[c]
       IN  cc' = [cc EXCEPT
                    !.calls[c].http = http,
                    !.calls[c].to_send = <<>>,
                    !.calls[c].out =
                      ExecuteAnswer(execute_batch(call.pre, call.to_send,
                                                  batch_with_key(call.key, call.to_send, http))),
                    !.calls[c].pc = "done"]
  /\ UNCHANGED <<themeLegs, origLegs, last, prev, om>>

NextConc ==
  \E c \in Calls :
    \/ CBegin(c)
    \/ CLazyRead(c)
    \/ CLazyLoad(c)
    \/ CApplyOverrides(c)
    \/ CPrice(c)
    \/ CSend(c)
    \/ CPost(c)

SpecConc == InitConc /\ [][NextConc]_vars

\* ------------------------------------------------------------- properties
\* A call has returned a BasketOrderPreview (preview itself, or the preview
\* execute starts with).
Priced == last.op # "none" /\ ~last.pre.raised

\* The legs the call works on, before renormalization: leg i of the theme
\* with the override of its market applied.
LegAfterOverride(i) ==
  LET leg == origLegs[i]
      o == last.overrides[leg.market_ticker]
  IN  IF ~o.present THEN leg
      ELSE [market_ticker |-> leg.market_ticker,
            direction |-> IF o.direction = "unset" THEN leg.direction ELSE o.direction,
            enabled |-> IF o.enabled = "unset" THEN leg.enabled ELSE o.enabled = "yes",
            weight |-> IF o.weight.kind = "none" THEN leg.weight
                       ELSE IF o.weight.val <= 0 THEN <<0, 1>>
                       ELSE IF o.weight.val >= WDen THEN <<1, 1>>
                       ELSE Rat(o.weight.val, WDen)]

\* The legs the call works on, and the enabled ones, in the theme's order.
ExpectedLegs == [i \in 1..Len(origLegs) |-> LegAfterOverride(i)]
EnabledLegs == SelectSeq(ExpectedLegs, LAMBDA l : l.enabled)

\* The sum of the weights of a list of legs.
RECURSIVE WeightSumFrom(_, _, _)
WeightSumFrom(legs, k, acc) ==
  IF acc[2] > 0 /\ k <= Len(legs)
  THEN WeightSumFrom(legs, k + 1, RatAdd(acc, legs[k].weight))
  ELSE acc

WeightSum(legs) == WeightSumFrom(legs, 1, <<0, 1>>)

\* The weight a leg is priced with, the enabled legs' weights summing to sum.
NormalizedWeight(leg, sum) == IF sum[1] > 0 THEN RatDiv(leg.weight, sum) ELSE leg.weight

\* The price of a leg's direction in the snapshot of its market, or None.
UnitPrice(leg) ==
  LET m == last.exchange.markets[leg.market_ticker]
      raw == CASE leg.direction = "BUY_YES" -> m.yes_ask_dollars
               [] leg.direction = "SELL_YES" -> m.yes_bid_dollars
               [] leg.direction = "BUY_NO" -> m.no_ask_dollars
               [] leg.direction = "SELL_NO" -> m.no_bid_dollars
  IN  IF m.present /\ raw.kind \in {"num", "str"} /\ raw.val > 0 THEN raw ELSE None

RECURSIVE SumEstCostFrom(_, _, _)
SumEstCostFrom(legs, k, acc) ==
  IF acc >= 0 /\ k <= Len(legs)
  THEN SumEstCostFrom(legs, k + 1, acc + legs[k].est_cost_dollars)
  ELSE acc

SumEstCost(legs) == SumEstCostFrom(legs, 1, 0)

\* C1: for every theme, override set, positive budget and snapshot map, the
\* preview's est_total_cost_dollars never exceeds total_budget_dollars.
C1_CostWithinBudget ==
  Priced => last.pre.result.est_total_cost_dollars <= last.pre.result.total_budget_dollars

\* C2: every enabled leg with a snapshot and a positive price for its
\* direction gets contracts = floor(total_budget * normalized_weight / price)
\* (the largest count whose cost fits the leg's share of the budget), at that
\* price; and weights [0.6, 0.4], budget 50, prices [0.50, 0.25] give
\* contracts [60, 80], costs [30, 20] and total 50.
C2_Scenario ==
  /\ Priced
  /\ origLegs = <<Leg("M1", "BUY_YES", 6, TRUE), Leg("M2", "SELL_NO", 4, TRUE)>>
  /\ \A m \in Markets : ~last.overrides[m].present
  /\ last.total_budget_dollars = Dollars(50)
  /\ last.exchange.ok
  /\ \A m \in Markets :
       /\ last.exchange.markets[m].present
       /\ last.exchange.markets[m].yes_ask_dollars = Str(Half)
       /\ last.exchange.markets[m].no_bid_dollars = Str(Quarter)

C3_Renormalized ==
  last.op # "none" =>
    LET before == ExpectedLegs
        after == last.pre.legs
        sum == WeightSum(EnabledLegs)
    IN  /\ Len(after) = Len(before)
        /\ \A i \in 1..Len(before) :
             ~before[i].enabled \/ sum[1] <= 0 => after[i].weight = before[i].weight
        /\ sum[1] > 0 => WeightSum(SelectSeq(after, LAMBDA l : l.enabled)) = <<1, 1>>

\* Renormalization has changed the enabled legs' weights next to a disabled
\* leg of positive weight.
C3_Witness ==
  /\ last.op # "none"
  /\ WeightSum(EnabledLegs)[1] > 0
  /\ WeightSum(EnabledLegs) # <<1, 1>>
  /\ \E i \in 1..Len(origLegs) :
       ~ExpectedLegs[i].enabled /\ ExpectedLegs[i].weight[1] > 0
  /\ WeightSum(SelectSeq(last.pre.legs, LAMBDA l : l.enabled)) = <<1, 1>>

\* C4: in every BasketOrderPreview returned (the no-legs-enabled one too)
\* est_total_cost_dollars is the sum of the legs' est_cost_dollars rounded
\* to 4 decimals.
C4_TotalIsSum ==
  Priced =>
    last.pre.result.est_total_cost_dollars = Round4(SumEstCost(last.pre.result.legs))

\* A preview of two legs that cost something, one of them with a warning.
C4_Witness ==
  /\ Priced
  /\ Len(last.pre.result.legs) = 2
  /\ \A k \in 1..2 : last.pre.result.legs[k].est_cost_dollars > 0
  /\ last.pre.result.legs[2].warnings # <<>>
  /\ last.pre.result.est_total_cost_dollars
       = last.pre.result.legs[1].est_cost_dollars + last.pre.result.legs[2].est_cost_dollars

\* C5: with a leg enabled and the snapshot fetch returning, preview returns
\* exactly one priced leg per enabled leg, in the theme's order and with the
\* same market id, whatever fails for single legs; disabled legs never appear.
C5_OneLegPerEnabled ==
  last.op # "none" /\ EnabledLegs # <<>> /\ last.exchange.ok =>
    LET en == EnabledLegs
        out == last.pre.result.legs
    IN  /\ ~last.pre.raised
        /\ Len(out) = Len(en)
        /\ \A k \in 1..Len(en) :
             /\ out[k].market_ticker = en[k].market_ticker
             /\ out[k].direction = en[k].direction

\* Two enabled legs, the first without a snapshot and the second without a
\* usable price, next to nothing else: both are in the preview.
C5_Witness ==
  /\ Priced
  /\ Len(EnabledLegs) = 2
  /\ Len(last.pre.result.legs) = 2
  /\ last.pre.result.legs[1].warnings = <<"Market not found.">>
  /\ last.pre.result.legs[2].warnings = <<"Missing or invalid bid/ask.">>

\* C6: every warning produced while pricing a leg is also in the aggregate
\* warnings list of the returned BasketOrderPreview.
C6_WarningsAggregated ==
  Priced =>
    \A k \in 1..Len(last.pre.result.legs) :
      \A j \in 1..Len(last.pre.result.legs[k].warnings) :
        \E a \in 1..Len(last.pre.result.warnings) :
          last.pre.result.warnings[a] = last.pre.result.legs[k].warnings[j]

\* C7: with no leg enabled after the overrides, preview returns a preview
\* with no legs, est_total_cost 0 and the single warning "No legs enabled.",
\* raises nothing and fetches no snapshot.
C7_NoLegsEnabled ==
  last.op # "none" /\ EnabledLegs = <<>> =>
    /\ ~last.pre.raised
    /\ last.pre.result.legs = <<>>
    /\ last.pre.result.est_total_cost_dollars = 0
    /\ last.pre.result.warnings = <<"No legs enabled.">>
    /\ last.pre.fetched = <<>>

\* Every leg of a non-empty theme is disabled, one of them by an override,
\* while the exchange would have failed the snapshot request.
C7_Witness ==
  /\ last.op = "preview"
  /\ origLegs # <<>>
  /\ EnabledLegs = <<>>
  /\ \E i \in 1..Len(origLegs) : origLegs[i].enabled
  /\ ~last.exchange.ok
  /\ last.pre.result.warnings = <<"No legs enabled.">>

\* C8: preview and execute never modify the caller's theme: after any
\* sequence of calls every leg of the theme has its original enabled,
\* direction and weight.
C8_ThemeUntouched == themeLegs = origLegs

\* An execute call has overridden one leg and renormalized the weights of
\* its working legs, and the theme is as it was.
C8_Witness ==
  /\ last.op = "execute"
  /\ \E m \in Markets : last.overrides[m].present
  /\ \E m \in Markets : ~last.overrides[m].present
  /\ Len(origLegs) = 2
  /\ \A i \in 1..2 : last.pre.legs[i].weight # origLegs[i].weight
  /\ themeLegs = origLegs

\* C9: a preview call repeated with identical theme, budget and overrides
\* and served identical snapshots returns the identical BasketOrderPreview
\* (or fails alike), also right after the first call on the same theme.
C9_Deterministic ==
  prev.op = "preview" =>
    /\ last.pre.raised = prev.pre.raised
    /\ last.pre.result = prev.pre.result

\* A repeated preview that renormalized weights, with an override on one
\* leg only, and priced contracts.
C9_Witness ==
  /\ prev.op = "preview"
  /\ \E m \in Markets : last.overrides[m].present
  /\ Len(last.pre.result.legs) = 2
  /\ \A k \in 1..2 : last.pre.result.legs[k].contracts > 0
  /\ \A i \in 1..2 : last.pre.legs[i].weight # origLegs[i].weight
  /\ last.pre.result = prev.pre.result

\* The priced legs of the last call that have contracts > 0.
Translatable == SelectSeq(last.pre.result.legs, LAMBDA l : l.contracts > 0)

\* C10: execute calls batch submission only with between 1 and 20 orders,
\* each built from a priced leg with contracts > 0 (no other leg is
\* translated); with zero translatable orders or more than 20 it returns
\* success = false, a descriptive message and no results, without any
\* submission call.
C10_BatchWithinLimit ==
  last.op = "execute" /\ ~last.exec.raised =>
    LET legs == Translatable
    IN  /\ \A c \in 1..Len(last.exec.sent) :
             LET orders == last.exec.sent[c]
             IN  /\ Len(orders) >= 1
                 /\ Len(orders) <= 20
                 /\ Len(orders) = Len(legs)
                 /\ \A k \in 1..Len(orders) :
                      /\ orders[k].ticker = legs[k].market_ticker
                      /\ orders[k].count = legs[k].contracts
                      /\ orders[k].count > 0
        /\ Len(legs) = 0 \/ Len(legs) > 20 =>
             /\ last.exec.sent = <<>>
             /\ ~last.exec.success
             /\ last.exec.results = <<>>
             /\ last.exec.message =
                  IF Len(legs) = 0
                  THEN "No orders to place (all legs have 0 contracts or errors)."
                  ELSE "Too many legs (max 20)."

\* An execute call priced 21 legs with contracts and submitted nothing.
C10_Witness ==
  /\ last.op = "execute"
  /\ Len(Translatable) = 21
  /\ last.exec.sent = <<>>
  /\ last.exec.message = "Too many legs (max 20)."

\* An execute call reached the batch submission, and what the exchange
\* client was given for it.
Submitted == last.op = "execute" /\ last.exec.sent # <<>>
KeyConfigured ==
  last.kalshi.config.api_key_id /\ (last.kalshi.config.pem \/ last.kalshi.config.path)
RequestFails == last.kalshi.http.kind = "transport" \/ last.kalshi.http.status >= 400
\* The text of the exception the batch submission raises.
ExceptionText ==
  IF ~KeyConfigured THEN "Kalshi API key not configured"
  ELSE IF last.kalshi.http.kind = "transport" THEN last.kalshi.http.text
  ELSE IF last.kalshi.http.json /\ last.kalshi.http.error_message # ""
  THEN last.kalshi.http.error_message
  ELSE IF last.kalshi.http.json /\ last.kalshi.http.message # ""
  THEN last.kalshi.http.message
  ELSE IF last.kalshi.http.text # "" THEN last.kalshi.http.text
  ELSE IF last.kalshi.http.status = 500 THEN "HTTP 500" ELSE "HTTP 400"

\* C11: when the batch submission raises (no key, a transport failure or a
\* status >= 400), execute does not raise and returns success = false, the
\* exception's text as message and no results.
C11_BatchExceptionSurfaced ==
  (Submitted /\ (~KeyConfigured \/ RequestFails)) =>
    /\ ~last.exec.raised
    /\ ~last.exec.success
    /\ last.exec.message = ExceptionText
    /\ last.exec.results = <<>>

\* An execute call whose batch request timed out.
C11_Witness ==
  /\ Submitted
  /\ KeyConfigured
  /\ last.kalshi.http.kind = "transport"
  /\ last.exec.message = "timed out"
  /\ Len(last.exec.sent[1]) = 2

\* The batch submission returned a response (a 2xx answer).
Answered == Submitted /\ KeyConfigured /\ ~RequestFails

\* C12: on a batch response, success is true iff no returned per-leg result
\* carries an error; the message is "Batch submitted." exactly when success
\* is true and the partial-failure message otherwise.
C12_SuccessIffNoError ==
  Answered =>
    /\ last.exec.success <=>
         (\A i \in 1..Len(last.exec.results) : last.exec.results[i].error = NoText)
    /\ last.exec.message =
         IF last.exec.success THEN "Batch submitted."
         ELSE "Some orders failed; check per-leg results."
    /\ ~last.exec.raised

\* A response of two items of which the first carries an error.
C12_Witness ==
  /\ Answered
  /\ Len(last.exec.results) = 2
  /\ last.exec.results[1].error = "insufficient balance"
  /\ last.exec.results[2].error = NoText
  /\ ~last.exec.success

\* The items of the batch response, as many as the exchange answered with.
ItemCount ==
  IF last.kalshi.http.has_orders
  THEN Len(last.exec.sent[1]) - last.kalshi.http.shape.drop ELSE 0
ErrorAt == last.kalshi.http.shape.err_at

\* C13: whenever an item of the batch response carries an error (a
\* structured object with or without a message, or a raw value), execute
\* returns success = false, keeps one result per response item, and the
\* result of the erroring item has a non-null error: the structured message
\* when there is one, the string form of the raw value otherwise.
C13_ErrorItemFails ==
  (Answered /\ ErrorAt \in 1..ItemCount) =>
    /\ ~last.exec.success
    /\ Len(last.exec.results) = ItemCount
    /\ last.exec.results[ErrorAt].error # NoText
    /\ last.kalshi.http.shape.err.kind \in {"dict_msg", "raw"} =>
         last.exec.results[ErrorAt].error = last.kalshi.http.shape.err.text

\* The legs execute translates into orders, in order: order k of a
\* submission is made from leg k of these.
OrderedLegs == SelectSeq(last.pre.result.legs, LAMBDA l : l.contracts > 0)
\* The price string an order carries for its side.
PriceOf(order) ==
  IF order.side = "yes" THEN order.yes_price_dollars ELSE order.no_price_dollars
\* The amount a price string denotes.
FracDigit(ps, i) == IF i <= Len(ps.frac) THEN ps.frac[i] ELSE 0
StrValue(ps) ==
  ps.int * Scale
  + (FracDigit(ps, 1) * 1000 + FracDigit(ps, 2) * 100
     + FracDigit(ps, 3) * 10 + FracDigit(ps, 4)) * Tick

\* C14: the price string of an order is the unit price to 4 fractional
\* digits (the nearest such amount), with trailing zeros trimmed and at
\* least one digit after the point: 0.5 gives "0.5", 0.4500 gives "0.45",
\* 1.0 gives "1.0".
C14_PriceString ==
  Submitted =>
    \A k \in 1..Len(last.exec.sent[1]) :
      LET ps == PriceOf(last.exec.sent[1][k])
          p == OrderedLegs[k].price_dollars
      IN  /\ Len(ps.frac) \in 1..4
          /\ \A i \in 1..Len(ps.frac) : ps.frac[i] \in 0..9
          /\ Len(ps.frac) > 1 => ps.frac[Len(ps.frac)] # 0
          /\ 2 * Abs(StrValue(ps) - p) <= Tick
          /\ p = Half => ps = [int |-> 0, frac |-> <<5>>]
          /\ p = Cents45 => ps = [int |-> 0, frac |-> <<4, 5>>]
          /\ p = Dollars(1) => ps = [int |-> 1, frac |-> <<0>>]

\* A submission with an order at 0.45 and an order at 1.0.
C14_Witness ==
  /\ Submitted
  /\ \E k \in 1..Len(last.exec.sent[1]) :
       /\ OrderedLegs[k].price_dollars = Cents45
       /\ last.exec.sent[1][k].yes_price_dollars = [int |-> 0, frac |-> <<4, 5>>]
  /\ \E k \in 1..Len(last.exec.sent[1]) :
       /\ OrderedLegs[k].price_dollars = Dollars(1)
       /\ last.exec.sent[1][k].yes_price_dollars = [int |-> 1, frac |-> <<0>>]

\* The orders of the last call's submission and, after a retry, of the
\* call before it.
LastOrders == IF Submitted THEN last.exec.sent[1] ELSE <<>>
PrevOrders == IF prev.op = "execute" THEN prev.exec.sent[1] ELSE <<>>

\* C15 as claimed: no two orders of the same execute call, and no two
\* orders of a call and of its retry, share a client_order_id.
C15_KeysUnique ==
  /\ \A j, k \in 1..Len(LastOrders) :
       j # k => LastOrders[j].client_order_id # LastOrders[k].client_order_id
  /\ \A j \in 1..Len(PrevOrders), k \in 1..Len(LastOrders) :
       PrevOrders[j].client_order_id # LastOrders[k].client_order_id

\* C15 amended: the key of the k-th order of a call is
\* basket_id:market_id:suffix with the k-th suffix drawn in that call, so
\* orders for different markets never share a key, and two orders for the
\* same market (in one call, or in a call and its retry) share one only
\* when their suffix draws coincide.
C15_KeysDifferUnlessSuffixRepeats ==
  /\ \A k \in 1..Len(LastOrders) :
       LastOrders[k].client_order_id = <<BasketId, OrderedLegs[k].market_ticker, last.uuids[k]>>
  /\ \A j, k \in 1..Len(LastOrders) :
       LastOrders[j].client_order_id = LastOrders[k].client_order_id =>
         /\ LastOrders[j].ticker = LastOrders[k].ticker
         /\ last.uuids[j] = last.uuids[k]
  /\ \A j \in 1..Len(PrevOrders), k \in 1..Len(LastOrders) :
       PrevOrders[j].client_order_id = LastOrders[k].client_order_id =>
         /\ PrevOrders[j].ticker = LastOrders[k].ticker
         /\ prev.uuids[j] = last.uuids[k]

\* A retry whose two orders were given the same suffix, after a call whose
\* orders were given suffixes of their own.
C15_Witness ==
  /\ prev.op = "execute"
  /\ Len(PrevOrders) = 2
  /\ Len(LastOrders) = 2
  /\ prev.uuids[1] # prev.uuids[2]
  /\ last.uuids[1] = last.uuids[2]
  /\ LastOrders[1].client_order_id # LastOrders[2].client_order_id
  /\ PrevOrders[1].client_order_id = LastOrders[1].client_order_id

\* C16: a batch submission without a configured signing key fails with the
\* configuration error before any HTTP request is sent; the error is raised
\* to the caller (execute reports its text) and the submission is not
\* tried again.
C16_NoKeyNoRequest ==
  (Submitted /\ ~KeyConfigured) =>
    /\ last.exec.posts = <<>>
    /\ Len(last.exec.sent) = 1
    /\ ~last.exec.success
    /\ last.exec.message = "Kalshi API key not configured"
    /\ last.exec.results = <<>>

\* Two orders submitted with a key id but no private key configured.
C16_Witness ==
  /\ Submitted
  /\ last.kalshi.config.api_key_id
  /\ ~last.kalshi.config.pem /\ ~last.kalshi.config.path
  /\ Len(last.exec.sent[1]) = 2
  /\ last.exec.posts = <<>>

\* C17: in one execute call the batch submission is invoked at most once,
\* and sends at most one request, whether it succeeds, returns per-order
\* errors or raises.
C17_SubmittedAtMostOnce ==
  last.op = "execute" =>
    /\ Len(last.exec.sent) <= 1
    /\ Len(last.exec.posts) <= 1
    /\ \A i \in 1..Len(last.exec.posts) : last.exec.posts[i] = last.exec.sent[1]

\* A submission whose request timed out, sent once.
C17_Witness ==
  /\ Submitted
  /\ KeyConfigured
  /\ last.kalshi.http.kind = "transport"
  /\ Len(last.exec.sent) = 1
  /\ Len(last.exec.posts) = 1
  /\ ~last.exec.success

\* A call has fetched the snapshots of its enabled legs.
Previewed == last.op # "none" /\ EnabledLegs # <<>> /\ last.exchange.ok
\* The snapshot found for a leg's market, and whether its status is one of
\* the tradable ones (in any case of letters).
SnapshotOf(leg) == last.exchange.markets[leg.market_ticker]
Untradable(leg) ==
  /\ SnapshotOf(leg).present
  /\ SnapshotOf(leg).status \notin {"active", "Active", "ACTIVE", "open", "Open", "OPEN"}
Unpriced(leg) == SnapshotOf(leg).present /\ UnitPrice(leg).kind = "none"

\* C18 as claimed: a leg whose market is not found, is untradable or has no
\* price gets zero contracts and a warning, and the preview is not aborted.
C18_DataErrorsZeroContracts ==
  Previewed =>
    /\ ~last.pre.raised
    /\ Len(last.pre.result.legs) = Len(EnabledLegs)
    /\ \A k \in 1..Len(EnabledLegs) :
         (~SnapshotOf(EnabledLegs[k]).present \/ Untradable(EnabledLegs[k])
            \/ Unpriced(EnabledLegs[k])) =>
           /\ last.pre.result.legs[k].contracts = 0
           /\ last.pre.result.legs[k].warnings # <<>>

\* C18 amended: a leg whose market is not found or has no price gets zero
\* contracts and a warning; a leg whose market is untradable gets a warning
\* and is priced like any other leg; the preview is not aborted.
C18_DataErrorsRecovered ==
  Previewed =>
    LET en == EnabledLegs
        sum == WeightSum(en)
        b == last.total_budget_dollars
        out == last.pre.result.legs
    IN  /\ ~last.pre.raised
        /\ Len(out) = Len(en)
        /\ \A k \in 1..Len(en) :
             /\ (~SnapshotOf(en[k]).present \/ Unpriced(en[k])) =>
                  out[k].contracts = 0 /\ out[k].warnings # <<>>
             /\ Untradable(en[k]) =>
                  /\ out[k].warnings # <<>>
                  /\ UnitPrice(en[k]).kind # "none" =>
                       LET nw == NormalizedWeight(en[k], sum)
                           p == UnitPrice(en[k]).val
                       IN  /\ out[k].price_dollars = p
                           /\ out[k].contracts * p * nw[2] <= b * nw[1]
                           /\ (out[k].contracts + 1) * p * nw[2] > b * nw[1]

\* A preview of two legs: the first market is not found, the second is
\* closed and its leg is priced with contracts.
C18_Witness ==
  /\ Previewed
  /\ Len(EnabledLegs) = 2
  /\ ~SnapshotOf(EnabledLegs[1]).present
  /\ last.pre.result.legs[1].contracts = 0
  /\ Untradable(EnabledLegs[2])
  /\ last.pre.result.legs[2].contracts > 0
  /\ last.pre.result.legs[2].warnings = <<"Market not tradable (status=closed).">>

\* C19: an enabled leg whose market is absent from the fetched snapshots
\* yields a priced leg with contracts = 0, price = 0, est_cost = 0 and
\* exactly the warning "Market not found."; the remaining legs are still
\* priced.
C19_MarketNotFound ==
  Previewed =>
    LET en == EnabledLegs
        out == last.pre.result.legs
    IN  /\ ~last.pre.raised
        /\ Len(out) = Len(en)
        /\ \A k \in 1..Len(en) :
             IF ~SnapshotOf(en[k]).present
             THEN /\ out[k].market_ticker = en[k].market_ticker
                  /\ out[k].contracts = 0
                  /\ out[k].price_dollars = 0
                  /\ out[k].est_cost_dollars = 0
                  /\ out[k].warnings = <<"Market not found.">>
             ELSE /\ "Market not found." \notin {out[k].warnings[i] : i \in 1..Len(out[k].warnings)}
                  /\ UnitPrice(en[k]).kind # "none" =>
                       out[k].price_dollars = UnitPrice(en[k]).val

\* A preview of two legs: the first market is not found, the second leg is
\* priced with contracts and without a warning.
C19_Witness ==
  /\ Previewed
  /\ Len(EnabledLegs) = 2
  /\ ~SnapshotOf(EnabledLegs[1]).present
  /\ last.pre.result.legs[1].warnings = <<"Market not found.">>
  /\ last.pre.result.legs[2].contracts > 0
  /\ last.pre.result.legs[2].warnings = <<>>

\* C20: an enabled leg whose price for its direction is missing,
\* unparseable or non-positive yields a priced leg with contracts = 0,
\* est_cost = 0 and the warning "Missing or invalid bid/ask.", and still
\* appears in the preview.
C20_MissingPrice ==
  Previewed =>
    LET en == EnabledLegs
        out == last.pre.result.legs
    IN  /\ Len(out) = Len(en)
        /\ \A k \in 1..Len(en) :
             Unpriced(en[k]) =>
               /\ out[k].market_ticker = en[k].market_ticker
               /\ out[k].direction = en[k].direction
               /\ out[k].contracts = 0
               /\ out[k].est_cost_dollars = 0
               /\ out[k].warnings # <<>>
               /\ out[k].warnings[Len(out[k].warnings)] = "Missing or invalid bid/ask."

\* A preview of two legs, the first with no ask at all and the second with
\* a negative bid on a closed market.
C20_Witness ==
  /\ Previewed
  /\ Len(EnabledLegs) = 2
  /\ EnabledLegs[1].direction = "BUY_NO"
  /\ SnapshotOf(EnabledLegs[1]).present
  /\ SnapshotOf(EnabledLegs[1]).no_ask_dollars = None
  /\ last.pre.result.legs[1].warnings = <<"Missing or invalid bid/ask.">>
  /\ EnabledLegs[2].direction = "SELL_NO"
  /\ SnapshotOf(EnabledLegs[2]).present
  /\ SnapshotOf(EnabledLegs[2]).no_bid_dollars.val < 0
  /\ last.pre.result.legs[2].warnings =
       <<"Market not tradable (status=closed).", "Missing or invalid bid/ask.">>
  /\ last.pre.result.legs[2].contracts = 0

\* The warnings of a priced leg, as a set.
WarningSet(pl) == {pl.warnings[i] : i \in 1..Len(pl.warnings)}

\* C21: an enabled leg with a positive price and
\* total_budget * normalized_weight < price gets contracts = 0, est_cost = 0
\* and the warning "Budget too small for at least 1 contract."; in every
\* priced leg contracts >= 0, and est_cost > 0 only if contracts >= 1.
C21_BudgetTooSmall ==
  Previewed =>
    LET en == EnabledLegs
        sum == WeightSum(en)
        b == last.total_budget_dollars
        out == last.pre.result.legs
    IN  /\ Len(out) = Len(en)
        /\ \A k \in 1..Len(en) :
             /\ out[k].contracts >= 0
             /\ out[k].est_cost_dollars > 0 => out[k].contracts >= 1
             /\ UnitPrice(en[k]).kind # "none" =>
                  LET nw == NormalizedWeight(en[k], sum)
                      p == UnitPrice(en[k]).val
                  IN  IF b * nw[1] < p * nw[2]
                      THEN /\ out[k].contracts = 0
                           /\ out[k].est_cost_dollars = 0
                           /\ "Budget too small for at least 1 contract."
                                \in WarningSet(out[k])
                      ELSE "Budget too small for at least 1 contract."
                             \notin WarningSet(out[k])

\* A preview of two legs at the same price: the share of the first buys a
\* contract, the share of the second is too small for one.
C21_Witness ==
  /\ Previewed
  /\ Len(EnabledLegs) = 2
  /\ UnitPrice(EnabledLegs[1]).kind # "none"
  /\ UnitPrice(EnabledLegs[2]).kind # "none"
  /\ last.pre.result.legs[1].contracts >= 1
  /\ last.pre.result.legs[1].est_cost_dollars > 0
  /\ last.pre.result.legs[2].price_dollars > 0
  /\ last.pre.result.legs[2].contracts = 0
  /\ last.pre.result.legs[2].est_cost_dollars = 0
  /\ last.pre.result.legs[2].warnings = <<"Budget too small for at least 1 contract.">>

\* The not-tradable warnings there are.
NotTradableWarnings ==
  {"Market not tradable (status=closed).", "Market not tradable (status=None).",
   "Market not tradable."}

\* C22: a leg whose snapshot status is not active/open (in any case of
\* letters) gets a not-tradable warning, a leg whose status is active/open
\* in any case gets none, and the untradable leg is priced as a tradable one
\* is: at the price of its direction, with the floor of its share over the
\* price as contracts and contracts * price as cost; an execute call that
\* submits still carries an order for it when its contracts are > 0.
C22_UntradableStillPriced ==
  Previewed =>
    LET en == EnabledLegs
        sum == WeightSum(en)
        b == last.total_budget_dollars
        out == last.pre.result.legs
    IN  /\ Len(out) = Len(en)
        /\ \A k \in 1..Len(en) :
             /\ SnapshotOf(en[k]).present =>
                  (Untradable(en[k]) <=> WarningSet(out[k]) \cap NotTradableWarnings # {})
             /\ Untradable(en[k]) /\ UnitPrice(en[k]).kind # "none" =>
                  LET nw == NormalizedWeight(en[k], sum)
                      p == UnitPrice(en[k]).val
                  IN  /\ out[k].price_dollars = p
                      /\ out[k].contracts * p * nw[2] <= b * nw[1]
                      /\ (out[k].contracts + 1) * p * nw[2] > b * nw[1]
                      /\ out[k].est_cost_dollars = Round4(out[k].contracts * p)
                      /\ (last.op = "execute" /\ out[k].contracts > 0
                            /\ Len(Translatable) <= 20) =>
                           /\ last.exec.sent # <<>>
                           /\ \E c \in 1..Len(last.exec.sent[1]) :
                                /\ last.exec.sent[1][c].ticker = en[k].market_ticker
                                /\ last.exec.sent[1][c].count = out[k].contracts
                                /\ StrValue(PriceOf(last.exec.sent[1][c])) = Round4(p)

\* An execute call priced a leg on a closed market and a leg on a market
\* whose status is spelled "Open", and submitted an order for each.
C22_Witness ==
  /\ Submitted
  /\ Len(EnabledLegs) = 2
  /\ SnapshotOf(EnabledLegs[1]).status = "closed"
  /\ SnapshotOf(EnabledLegs[2]).status = "Open"
  /\ last.pre.result.legs[1].warnings = <<"Market not tradable (status=closed).">>
  /\ last.pre.result.legs[2].warnings = <<>>
  /\ Len(last.exec.sent[1]) = 2
  /\ last.exec.sent[1][1].count = last.pre.result.legs[1].contracts

\* The raw snapshot field a direction is priced from.
FieldOf(m, direction) ==
  CASE direction = "BUY_YES" -> m.yes_ask_dollars
    [] direction = "SELL_YES" -> m.yes_bid_dollars
    [] direction = "BUY_NO" -> m.no_ask_dollars
    [] direction = "SELL_NO" -> m.no_bid_dollars

\* C23: the unit price of a leg is the snapshot field of its direction
\* after overrides (BUY_YES yes_ask, SELL_YES yes_bid, BUY_NO no_ask,
\* SELL_NO no_bid), and the leg's contracts and cost are determined by that
\* price, the budget and the leg's weight alone.
C23_PriceByDirection ==
  Previewed =>
    LET en == EnabledLegs
        sum == WeightSum(en)
        b == last.total_budget_dollars
        out == last.pre.result.legs
    IN  /\ Len(out) = Len(en)
        /\ \A k \in 1..Len(en) :
             SnapshotOf(en[k]).present =>
               LET raw == FieldOf(SnapshotOf(en[k]), en[k].direction)
                   nw == NormalizedWeight(en[k], sum)
               IN  /\ out[k].direction = en[k].direction
                   /\ IF raw.kind \in {"num", "str"} /\ raw.val > 0
                      THEN /\ out[k].price_dollars = raw.val
                           /\ out[k].contracts = (b * nw[1]) \div (nw[2] * raw.val)
                           /\ out[k].est_cost_dollars = Round4(out[k].contracts * raw.val)
                      ELSE /\ out[k].price_dollars = 0
                           /\ out[k].contracts = 0
                           /\ out[k].est_cost_dollars = 0

\* A preview whose overrides made the first leg SELL_YES and the second
\* BUY_NO: they are priced at the yes bid and at the no ask, which differ
\* from the other prices of the snapshot.
C23_Witness ==
  /\ Previewed
  /\ Len(EnabledLegs) = 2
  /\ origLegs[1].direction = "BUY_YES"
  /\ EnabledLegs[1].direction = "SELL_YES"
  /\ EnabledLegs[2].direction = "BUY_NO"
  /\ \A k \in 1..2 : SnapshotOf(EnabledLegs[k]).status = "active"
  /\ last.pre.result.legs[1].price_dollars = SubTick
  /\ last.pre.result.legs[1].contracts > 0
  /\ last.pre.result.legs[2].price_dollars = 3 * Quarter

\* C24: applying overrides yields one working leg per theme leg, in the
\* theme's order and on the same market; each of enabled, direction and
\* weight is the override's value when the override of the leg's market sets
\* it and the leg's own value otherwise; an overridden weight is clamped to
\* [0, 1]; an override for a market that no leg of the theme is on adds no
\* leg.
C24_OverridesApplied ==
  (last.op # "none") =>
    LET out == last.pre.applied
    IN  /\ Len(out) = Len(origLegs)
        /\ \A i \in 1..Len(origLegs) :
             LET leg == origLegs[i]
                 o == last.overrides[leg.market_ticker]
             IN  /\ out[i].market_ticker = leg.market_ticker
                 /\ out[i].enabled =
                      IF o.present /\ o.enabled # "unset" THEN o.enabled = "yes"
                      ELSE leg.enabled
                 /\ out[i].direction =
                      IF o.present /\ o.direction # "unset" THEN o.direction
                      ELSE leg.direction
                 /\ IF o.present /\ o.weight.kind # "none"
                    THEN /\ RatLe(<<0, 1>>, out[i].weight)
                         /\ RatLe(out[i].weight, <<1, 1>>)
                         /\ o.weight.val \in 0..WDen =>
                              out[i].weight[1] * WDen = o.weight.val * out[i].weight[2]
                         /\ o.weight.val < 0 => out[i].weight[1] = 0
                         /\ o.weight.val > WDen => out[i].weight[1] = out[i].weight[2]
                    ELSE out[i].weight = leg.weight

\* A call on a theme of one leg with an override of weight 1.5 for the
\* leg's market and an override of weight -0.5 for a market the theme has
\* no leg on: one working leg, of weight 1.
C24_Witness ==
  /\ last.op # "none"
  /\ Len(origLegs) = 1
  /\ last.overrides["M1"].weight = Num(15)
  /\ last.overrides["M2"].weight = Num(-5)
  /\ Len(last.pre.applied) = 1
  /\ last.pre.applied[1].weight = <<1, 1>>
  /\ last.pre.applied[1].direction = "SELL_YES"
  /\ origLegs[1].direction # "SELL_YES"

EchoAt(i) == last.kalshi.http.shape.echo /\ i # ErrorAt
ClientIdAt(i) ==
  IF last.kalshi.http.shape.cid THEN last.exec.sent[1][i].client_order_id ELSE NoId
\* The submitted orders whose key is the client_order_id of item i.
KeyMatches(i) ==
  {j \in 1..Len(last.exec.sent[1]) : last.exec.sent[1][j].client_order_id = ClientIdAt(i)}

\* C26 as claimed: one result per item of the batch response, in response
\* order; its market ticker is the echoed order's ticker when the order is
\* present, otherwise the ticker of the submitted order whose key is the
\* item's client_order_id.
C26_TickerByEchoOrKey ==
  Answered =>
    /\ Len(last.exec.results) = ItemCount
    /\ \A i \in 1..Len(last.exec.results) :
         /\ last.exec.results[i].client_order_id = ClientIdAt(i)
         /\ IF EchoAt(i)
            THEN last.exec.results[i].market_ticker = last.exec.sent[1][i].ticker
            ELSE \E j \in KeyMatches(i) :
                   last.exec.results[i].market_ticker = last.exec.sent[1][j].ticker

\* C26 amended: one result per item, in response order; the ticker is the
\* echoed order's when the order is present, otherwise that of the first
\* submitted order whose key is the item's client_order_id, and "?" when
\* the item carries no client_order_id or no submitted order has that key.
C26_TickerByEchoKeyOrPlaceholder ==
  Answered =>
    /\ Len(last.exec.results) = ItemCount
    /\ \A i \in 1..Len(last.exec.results) :
         /\ last.exec.results[i].client_order_id = ClientIdAt(i)
         /\ last.exec.results[i].order_id = IF EchoAt(i) THEN i ELSE 0
         /\ IF EchoAt(i)
            THEN last.exec.results[i].market_ticker = last.exec.sent[1][i].ticker
            ELSE IF KeyMatches(i) # {}
            THEN \E j \in KeyMatches(i) :
                   /\ \A h \in KeyMatches(i) : j <= h
                   /\ last.exec.results[i].market_ticker = last.exec.sent[1][j].ticker
            ELSE last.exec.results[i].market_ticker = "?"

\* A response of two items: the first carries an error and its
\* client_order_id but no order, the second echoes its order.
C26_Witness ==
  /\ Answered
  /\ Len(last.exec.results) = 2
  /\ ErrorAt = 1
  /\ last.kalshi.http.shape.cid
  /\ last.kalshi.http.shape.echo
  /\ last.exec.results[1].order_id = 0
  /\ last.exec.results[1].market_ticker = last.exec.sent[1][1].ticker
  /\ last.exec.results[2].order_id = 2
  /\ last.exec.results[2].market_ticker = last.exec.sent[1][2].ticker
  /\ last.exec.results[1].market_ticker # last.exec.results[2].market_ticker

\* C28: a call with at least one enabled leg issues exactly one snapshot
\* fetch, for exactly the enabled legs' market ids in their order; execute
\* prices anew, so a fetch that fails leaves nothing submitted, and what is
\* submitted carries the contracts of the call's own preview and the prices
\* of the snapshots that fetch returned.
C28_OneFetchThenSubmit ==
  /\ (last.op # "none" /\ EnabledLegs # <<>>) =>
       /\ Len(last.pre.fetched) = 1
       /\ last.pre.fetched[1] = [k \in 1..Len(EnabledLegs) |-> EnabledLegs[k].market_ticker]
  /\ (last.op = "execute" /\ last.pre.raised) =>
       /\ last.exec.raised
       /\ last.exec.sent = <<>>
       /\ last.exec.posts = <<>>
  /\ Submitted =>
       /\ Len(last.pre.fetched) = 1
       /\ ~last.pre.raised
       /\ Len(last.exec.sent[1]) = Len(Translatable)
       /\ \A k \in 1..Len(last.exec.sent[1]) :
            /\ last.exec.sent[1][k].count = Translatable[k].contracts
            /\ UnitPrice(Translatable[k]).kind # "none"
            /\ StrValue(PriceOf(last.exec.sent[1][k]))
                 = Round4(UnitPrice(Translatable[k]).val)

\* An execute call with two enabled legs fetched the two markets at once
\* and submitted two orders at the prices fetched.
C28_Witness ==
  /\ Submitted
  /\ Len(EnabledLegs) = 2
  /\ last.pre.fetched = <<<<"M1", "M2">>>>
  /\ Len(last.exec.sent[1]) = 2
  /\ StrValue(PriceOf(last.exec.sent[1][1])) = UnitPrice(EnabledLegs[1]).val
  /\ StrValue(PriceOf(last.exec.sent[1][2])) = UnitPrice(EnabledLegs[2]).val
  /\ UnitPrice(EnabledLegs[1]).val # UnitPrice(EnabledLegs[2]).val

\* C30: whenever execute returns success = true, its results hold exactly
\* one entry for every order it submitted; a batch response that omits
\* items or has no orders list never yields success = true.
C30_SuccessCoversOrders ==
  (Submitted /\ last.exec.success) =>
    /\ Len(last.exec.results) = Len(last.exec.sent[1])
    /\ \A k \in 1..Len(last.exec.sent[1]) :
         \E i \in 1..Len(last.exec.results) :
           last.exec.results[i].market_ticker = last.exec.sent[1][k].ticker

\* The pages a call of get_open_markets has received, one after the other,
\* and the items on the first k of them.
RECURSIVE ConcatPages(_, _, _)
ConcatPages(pages, k, acc) ==
  IF k <= Len(pages) THEN ConcatPages(pages, k + 1, acc \o pages[k].markets) ELSE acc

RECURSIVE CountThrough(_, _)
CountThrough(pages, k) ==
  IF k = 0 THEN 0 ELSE CountThrough(pages, k - 1) + Len(pages[k].markets)

\* Page k of the call gives a reason to stop: no cursor, no items, or the
\* items so far reach the limit.
StopsAt(k) ==
  \/ ~om.pages[k].cursor
  \/ om.pages[k].markets = <<>>
  \/ CountThrough(om.pages, k) >= om.limit

\* What C27 says of the states of a call (limit >= 0): it goes on only
\* while no page received gave a reason to stop, and it has returned exactly
\* when the last page gave one; what it returns is at most limit records,
\* the first records of the pages in the order received.
C27_StopsAndReturnsPrefix ==
  /\ om.pc \in {"loop", "done"} =>
       \A k \in 1..(Len(om.pages) - 1) : ~StopsAt(k)
  /\ (om.pc = "loop" /\ om.pages # <<>>) => ~StopsAt(Len(om.pages))
  /\ om.pc = "done" =>
       /\ om.pages # <<>>
       /\ StopsAt(Len(om.pages))
       /\ Len(om.result) <= om.limit
       /\ Len(om.result) =
            IF CountThrough(om.pages, Len(om.pages)) < om.limit
            THEN CountThrough(om.pages, Len(om.pages)) ELSE om.limit
       /\ om.result = SubSeq(ConcatPages(om.pages, 1, <<>>), 1, Len(om.result))

\* C27: get_open_markets(limit) terminates whenever each page request
\* returns: it stops as soon as the cursor is absent, a page has no items or
\* the accumulated count reaches limit, and it returns at most limit
\* records, a prefix of the concatenated pages in page order.
C27_PagingTerminates ==
  /\ [](C27_StopsAndReturnsPrefix)
  /\ (om.pc = "loop") ~> (om.pc \in {"done", "raised"})

\* A call with limit 4 received a page of 3 with a cursor and a page of 3,
\* and returned the first 4 of the 6 records.
C27_Witness ==
  /\ om.pc = "done"
  /\ om.limit = 4
  /\ Len(om.pages) = 2
  /\ om.pages[1].cursor
  /\ Len(om.all_markets) = 6
  /\ om.result = <<<<1, 1>>, <<1, 2>>, <<1, 3>>, <<2, 1>>>>

\* What call c returns when it runs alone on the theme as it was
\* constructed, with the overrides, snapshots and exchange answer it had.
Alone(c) ==
  LET call == cc.calls[c]
      refs == [i \in 1..Len(origLegs) |-> i]
  IN  IF call.op = "preview"
      THEN PreviewAnswer(preview(origLegs, refs, Dollars(50), call.overrides, ConcExchange))
      ELSE ExecuteAnswer(execute(origLegs, refs, BasketId, Dollars(50), call.overrides,
                                 ConcExchange, NoUuids, Kalshi(cc.config, call.http)))
AllAsAlone == \A c \in 1..Len(cc.calls) : cc.calls[c].pc = "done" => cc.calls[c].out = Alone(c)

\* C29 as claimed: under any interleaving of concurrent preview/execute
\* calls on the same catalog theme and the same client, each call returns
\* what it would return running alone against the same snapshots, and no
\* call writes state that another call reads.
C29_IndependentNoSharedWrites ==
  /\ AllAsAlone
  /\ cc.reads = {}

\* C29 amended: each call returns what it would return running alone, no
\* call writes the theme's legs, and the only state one call writes and
\* another reads is an attribute set on first use (the theme catalog, the
\* client, the signing key), which every call would set to the same value.
C29_IndependentButLazyAttributes ==
  /\ AllAsAlone
  /\ themeLegs = origLegs
  /\ cc.legs_writer = 0
  /\ cc.reads \subseteq ConcSlots
  /\ \A c \in 1..Len(cc.calls) :
       /\ cc.calls[c].pc \in {"post"} => cc.calls[c].key = get_key(cc.config)
       /\ cc.calls[c].pc \in {"overrides", "price", "send", "key", "post", "done"} =>
            cc.slots["themes"] /\ cc.slots["kalshi"]

\* Two execute calls with different overrides have returned different
\* results; one of them loaded the key, the other found it loaded.
C29_Witness ==
  /\ \A c \in 1..2 : cc.calls[c].pc = "done" /\ cc.calls[c].op = "execute"
  /\ cc.calls[1].overrides # cc.calls[2].overrides
  /\ cc.calls[1].out.success /\ cc.calls[2].out.success
  /\ cc.calls[1].out # cc.calls[2].out
  /\ cc.slots["key"]
  /\ "key" \in cc.reads
  /\ themeLegs = origLegs

====
